---- MODULE Spec2Model ----
(***************************************************************************)
(* Host program of risc0-resnet-hasher (host/src/main.rs): one run stakes  *)
(* for the provider, creates a job as the client, accepts it as the        *)
(* provider, proves the guest computation, submits the proof and           *)
(* reconciles the provider balance.  The ledger (token, provider registry, *)
(* job manager) and the prover are collaborators outside the host; the     *)
(* guest (methods/guest/src/main.rs) supplies the journal.                 *)
(***************************************************************************)
EXTENDS Integers, Sequences, FiniteSets, TLC

VARIABLES
    run,            \* number of the current invocation of main
    stakingEnabled, \* provider_registry_address != Address::zero()
    prevStakeOk,    \* history: the previous run completed its staking stage
    pc,             \* position of main
    err,            \* error main returned with ("none" while it runs)
    warned,         \* the "balance did not increase" message was printed
    slept,          \* the sleeps of this run: seconds, and what they followed
    sent,           \* kinds of the transactions sent in this run, in order
    receipt,        \* per kind: unsent, pending, stalled, success, failure
    txArgs,         \* per kind: the arguments the sent transaction carries
    provBal,        \* ledger: GPUCredit balance of the provider
    stakeRec,       \* ledger: ProviderRegistry record of the provider
    jobs,           \* ledger: JobManager jobs by id
    nextJobId,      \* ledger: id the next created job gets
    stakeBal,       \* provider_gcredit_balance (NoBal before it is read)
    infoAfter,      \* provider_info_after_stake
    stakeNeeded,    \* history: what the first stake-record read decided
    stakeObserved,  \* history: a read in this run showed a sufficient record
    stakeStageOk,   \* history: the staking stage of this run completed
    createLogs,     \* job_creation_receipt.logs, kept until the next step of main
    job_id,         \* job_id (0 before it is parsed)
    jobRead,        \* job_details_before_accept
    raced,          \* history: job claimed by another after the pre-accept read
    est,            \* results of the two estimate_gas calls
    artifact,       \* zk_full_receipt
    sealed,         \* seal_for_contract and journal_hash_for_contract_array
    balBefore,      \* provider_balance_before_submit
    balAfter,       \* provider_balance_after_submit
    gPc,            \* guest: position of its main ("idle": not started)
    gInputs,        \* guest: inputs, what env::read() returns
    gOutputs,       \* guest: outputs
    gJournal        \* guest: the journal, what env::commit wrote

guestVars  == <<gPc, gInputs, gOutputs, gJournal>>
\* what no step of main changes within a run
cfgVars    == <<run, stakingEnabled, prevStakeOk, guestVars>>
ctlVars    == <<pc, err>>
txVars     == <<sent, receipt, txArgs>>
ledgerVars == <<provBal, stakeRec, jobs, nextJobId>>
stakeVars  == <<stakeBal, infoAfter, stakeNeeded, stakeObserved, stakeStageOk>>
jobVars    == <<createLogs, job_id, jobRead, raced>>
proofVars  == <<artifact, sealed>>
balVars    == <<balBefore, balAfter, warned>>
vars == <<cfgVars, ctlVars, slept, txVars, ledgerVars, stakeVars, jobVars, est,
          proofVars, balVars>>

----------------------------------------------------------------------------
(* Bounds of the model *)

MaxRuns == 2
MaxLogs == 2
MaxInputLen == 2
MaxByte == 2
OddGas == 7
TypicalGas == 21000
ImageLen == 3
WeightsLen == 4
DigestLen == 2
HashMod == 5

(* Program constants, amounts in whole tokens (10^18 base units) *)

DesiredStake == 5
JobReward == 10
AcceptFallbackGas == 800000
SubmitFallbackGas == 3000000
Created == 0
StakeSettleSecs == 15
AcceptSettleSecs == 30
SubmitSettleSecs == 10

Null == "0x0"
Provider == "provider"
OtherProvider == "other"
JobManagerAddr == "job_manager"
GpuCreditAddr == "gpu_credit"
JobCreatedSig == "JobCreated"
TransferSig == "Transfer"
ExpectedMethodId == "RISC0_RESNET_HASHER_ID"
OtherMethodId == "other_image_id"

TxKinds == {"stake_approve", "stake", "reward_approve", "create_job",
            "accept_job", "submit_proof"}
TxOrder == <<"stake_approve", "stake", "reward_approve", "create_job",
             "accept_job", "submit_proof">>

\* every run creates at most one job
JobIds == 1..MaxRuns
GasEstimates == {OddGas, TypicalGas}
NoBal == 0 - 1
NoArgs == [job |-> 0, gas |-> NoBal, jhash |-> <<>>]
NoEstimate == [made |-> FALSE, ok |-> FALSE, gas |-> 0]
NoJobRead == [read |-> FALSE, provider |-> Null, status |-> Created]
NoArtifact == [variant |-> "none", imageId |-> "none", journal |-> <<>>]
NoSeal == [extracted |-> FALSE, jhash |-> <<>>]
NoOutputs == [image_batch_hash |-> <<>>, model_weights_hash |-> <<>>,
              computation_output_hash |-> <<>>]
NoLogs == [have |-> FALSE, logs |-> <<>>]
NoInfo == [read |-> FALSE, exists |-> FALSE, amount |-> 0]

----------------------------------------------------------------------------
(* The guest: methods/guest/src/main.rs *)

RECURSIVE WeightedSum(_, _)
WeightedSum(bytes, i) ==
    IF i > Len(bytes) THEN 0 ELSE i * bytes[i] + WeightedSum(bytes, i + 1)

RECURSIVE PlainSum(_, _)
PlainSum(bytes, i) ==
    IF i > Len(bytes) THEN 0 ELSE bytes[i] + PlainSum(bytes, i + 1)

\* ShaImpl::hash_bytes, abstracted to a DigestLen-byte digest
Hash(bytes) ==
    [k \in 1..DigestLen |->
        IF k = 1 THEN (WeightedSum(bytes, 1) + Len(bytes)) % HashMod
                 ELSE (PlainSum(bytes, 1) + 3 * k + Len(bytes) * Len(bytes)) % HashMod]

\* keccak256, the ledger's hash, distinct from Hash
Keccak(bytes) ==
    <<(PlainSum(bytes, 1) + 2 * WeightedSum(bytes, 1) + 1) % HashMod>>

\* the two digests are concatenated the other way round
GuestMainSwapped(inputs) ==
    LET image_hash_bytes == Hash(inputs.image_batch_data)
        weights_hash_bytes == Hash(inputs.model_weights_data)
        combined_hashes_data == weights_hash_bytes \o image_hash_bytes
    IN [image_batch_hash |-> image_hash_bytes,
        model_weights_hash |-> weights_hash_bytes,
        computation_output_hash |-> Hash(combined_hashes_data)]

\* lines 22-45
GuestMain(inputs) ==
    LET image_hash_bytes == Hash(inputs.image_batch_data)
        weights_hash_bytes == Hash(inputs.model_weights_data)
        combined_hashes_data == image_hash_bytes \o weights_hash_bytes
    IN [image_batch_hash |-> image_hash_bytes,
        model_weights_hash |-> weights_hash_bytes,
        computation_output_hash |-> Hash(combined_hashes_data)]

\* env::commit(&outputs): the journal is the three digests in field order
JournalCommit(outputs) ==
    outputs.image_batch_hash \o outputs.model_weights_hash
        \o outputs.computation_output_hash

\* zk_full_receipt.journal.decode::<JobOutputs>()
JournalDecode(journal) ==
    IF Len(journal) = 3 * DigestLen
    THEN [ok |-> TRUE,
          image_batch_hash |-> SubSeq(journal, 1, DigestLen),
          model_weights_hash |-> SubSeq(journal, DigestLen + 1, 2 * DigestLen),
          computation_output_hash |->
              SubSeq(journal, 2 * DigestLen + 1, 3 * DigestLen)]
    ELSE [ok |-> FALSE, image_batch_hash |-> <<>>, model_weights_hash |-> <<>>,
          computation_output_hash |-> <<>>]

\* zk_guest_inputs: image bytes all 1, weight bytes all 2
HostJobInputs ==
    [image_batch_data |-> [i \in 1..ImageLen |-> 1],
     model_weights_data |-> [i \in 1..WeightsLen |-> 2]]

----------------------------------------------------------------------------
(* Decisions of the host *)

\* the balance is not compared with the stake
BalanceTooLowUnchecked(balance) == FALSE

\* line 111
BalanceTooLow(balance) == balance < DesiredStake

\* the record is never looked at: the stage always stakes
NeedsStakeAlways(info) == TRUE

\* line 122
NeedsStake(info) == ~info.exists \/ info.amount < DesiredStake

\* the re-read record is not checked
StillInsufficientUnchecked(info) == FALSE

\* line 143
StillInsufficient(info) == ~info.exists \/ info.amount < DesiredStake

\* the status check is left out
JobCheckProviderOnly(job) ==
    IF job.provider # Null THEN "JobAlreadyClaimed" ELSE "none"

\* lines 187-193
JobCheck(job) ==
    IF job.provider # Null THEN "JobAlreadyClaimed"
    ELSE IF job.status # Created THEN "JobNotAcceptable"
    ELSE "none"

\* the margin is applied the wrong way round
GasBudgetInverted(e, fallback) ==
    IF e.ok THEN (e.gas * 10) \div 12 ELSE fallback

\* lines 197-200 and 246-249
GasBudget(e, fallback) ==
    IF e.ok THEN (e.gas * 12) \div 10 ELSE fallback

\* the comparison never finds the reward
RewardReceivedNever(after, before) == FALSE

\* line 263
RewardReceived(after, before) == after > before

\* a missing reward ends the run with an error
AfterReconcileFatal(received) ==
    IF received THEN [pc |-> "decode", err |-> "none"]
    ELSE [pc |-> "failed", err |-> "RewardNotReceived"]

\* lines 263-267: either branch only prints, and main goes on
AfterReconcile(received) ==
    [pc |-> "decode", err |-> "none"]


\* the status of the stake allowance receipt is not looked at
AfterStakeApproveReceiptUnchecked(status) ==
    [pc |-> "stake_send", err |-> "none"]

\* lines 128-130: the stake allowance receipt
AfterStakeApproveReceipt(status) ==
    IF status = "success" THEN [pc |-> "stake_send", err |-> "none"]
    ELSE [pc |-> "failed", err |-> "StakeTransactionReverted"]

\* lines 134-136: the stake receipt
AfterStakeReceipt(status) ==
    IF status = "success" THEN [pc |-> "stake_sleep", err |-> "none"]
    ELSE [pc |-> "failed", err |-> "StakeTransactionReverted"]

\* line 161: the reward allowance receipt; only its presence is looked at
AfterRewardApproveReceipt(status) ==
    [pc |-> "create_send", err |-> "none"]

\* proving starts right behind the accept receipt
AfterAcceptReceiptNoWait(status) ==
    IF status = "success" THEN [pc |-> "prove", err |-> "none"]
    ELSE [pc |-> "failed", err |-> "AcceptRejected"]

\* a reverted accept is tried again
AfterAcceptReceiptRetry(status) ==
    IF status = "success" THEN [pc |-> "accept_sleep", err |-> "none"]
    ELSE [pc |-> "accept_estimate", err |-> "none"]

\* lines 205-211: the accept receipt
AfterAcceptReceipt(status) ==
    IF status = "success" THEN [pc |-> "accept_sleep", err |-> "none"]
    ELSE [pc |-> "failed", err |-> "AcceptRejected"]

\* the status of the submit receipt is not looked at
AfterSubmitReceiptUnchecked(status) ==
    [pc |-> "submit_sleep", err |-> "none"]

\* lines 254-258: the submit receipt
AfterSubmitReceipt(status) ==
    IF status = "success" THEN [pc |-> "submit_sleep", err |-> "none"]
    ELSE [pc |-> "failed", err |-> "SettlementReverted"]

\* the submission names the first job of the ledger
SubmitCallFirstJob(id, budget, journal_hash) ==
    [job |-> 1, gas |-> budget, jhash |-> journal_hash]

\* lines 244-250: submit_proof_and_claim(job_id, seal, journal hash, cid).gas(..)
SubmitCall(id, budget, journal_hash) ==
    [job |-> id, gas |-> budget, jhash |-> journal_hash]

\* any inner receipt is taken for a wrapped proof
IsGroth16Any(art) == TRUE

\* lines 228-231: match &zk_full_receipt.inner { InnerReceipt::Groth16(..) }
IsGroth16(art) == art.variant = "Groth16"

\* the address of the emitter is not looked at
IsJobCreatedLogAnyAddress(log_entry) ==
    /\ Len(log_entry.topics) # 0
    /\ log_entry.topics[1] = JobCreatedSig

\* line 173: a log of the job manager whose first topic is the event signature
IsJobCreatedLog(log_entry) ==
    /\ log_entry.address = JobManagerAddr
    /\ Len(log_entry.topics) # 0
    /\ log_entry.topics[1] = JobCreatedSig

\* lines 169-177: the scan of the creation receipt's logs; 0 stands for None
RECURSIVE ScanLogs(_, _)
ScanLogs(logs, i) ==
    IF i > Len(logs) THEN 0
    ELSE IF IsJobCreatedLog(logs[i]) /\ Len(logs[i].topics) > 1
         THEN logs[i].topics[2]
         ELSE ScanLogs(logs, i + 1)

ParseJobId(logs) == ScanLogs(logs, 1)

----------------------------------------------------------------------------
(* The collaborators: what the ledger and the prover may answer *)

TxStatuses == {"success", "failure"}

\* ProviderRegistry.stake mined with success: the collateral leaves the
\* balance; the record is updated, or is not yet (or never) visible
StakeRecordOutcomes(rec) ==
    {[exists |-> TRUE, amount |-> rec.amount + DesiredStake], rec}

\* JobManager.acceptJob can succeed only on an existing, unclaimed, Created job
AcceptStatuses(j) ==
    IF j < nextJobId /\ jobs[j].provider = Null /\ jobs[j].status = Created
    THEN TxStatuses ELSE {"failure"}

\* JobManager.submitProofAndClaim can succeed only for the job's provider, on
\* an Accepted job, with a proof of the committed method
SubmitStatuses(j, art) ==
    IF /\ j < nextJobId
       /\ jobs[j].provider = Provider
       /\ jobs[j].status = 1
       /\ art.variant = "Groth16"
       /\ art.imageId = ExpectedMethodId
    THEN TxStatuses ELSE {"failure"}

\* the provider balance after a successful submission: reward paid, nothing
\* paid, or less than before
SubmitBalanceOutcomes(b) ==
    {b + JobReward, b} \cup (IF b > 0 THEN {b - 1} ELSE {})

\* logs the receipt of the creation of job j may hold: the JobCreated event
\* of j, the signature alone, no topic at all, another event of the job
\* manager, and an event of the token with the same first topic
LogEntries(j) ==
    {[address |-> JobManagerAddr, topics |-> <<JobCreatedSig, j>>],
     [address |-> JobManagerAddr, topics |-> <<JobCreatedSig>>],
     [address |-> JobManagerAddr, topics |-> <<>>],
     [address |-> JobManagerAddr, topics |-> <<TransferSig, 1>>],
     [address |-> GpuCreditAddr, topics |-> <<JobCreatedSig, 1>>]}
RECURSIVE LogListsOfLen(_, _)
LogListsOfLen(j, n) ==
    IF n = 0 THEN {<<>>}
    ELSE {Append(l, e) : l \in LogListsOfLen(j, n - 1), e \in LogEntries(j)}
LogLists(j) == UNION {LogListsOfLen(j, n) : n \in 0..MaxLogs}

EstimateOutcomes ==
    {[made |-> TRUE, ok |-> FALSE, gas |-> 0]}
        \cup {[made |-> TRUE, ok |-> TRUE, gas |-> g] : g \in GasEstimates}

\* outputs of another guest build: the same JobOutputs shape, but the
\* computation hash is not the hash of the two digests
ForeignOutputs ==
    LET o == GuestMain(HostJobInputs)
        h == o.computation_output_hash
    IN [o EXCEPT !.computation_output_hash =
            [k \in 1..Len(h) |-> IF k = 1 THEN (h[1] + 1) % HashMod ELSE h[k]]]

\* receipts the prover may return: any inner variant, the image id of the
\* ELF it ran; the journal is what that guest committed, the guest of this
\* repository under the expected image id
Artifacts ==
    {[variant |-> v, imageId |-> ExpectedMethodId,
      journal |-> JournalCommit(GuestMain(HostJobInputs))] :
        v \in {"Composite", "Groth16", "Fake"}}
    \cup {[variant |-> v, imageId |-> OtherMethodId,
           journal |-> JournalCommit(ForeignOutputs)] :
        v \in {"Composite", "Groth16", "Fake"}}

----------------------------------------------------------------------------
(* Steps of main *)

Fail(e) == pc' = "failed" /\ err' = e

Goto(next) == pc' = next.pc /\ err' = (IF next.pc = "failed" THEN next.err ELSE err)

\* the stake allowance is not awaited: the stake goes out right behind it
SendTxStakeUnawaited(kind, args, awaitPc) ==
    \/ /\ sent' = Append(sent, kind)
       /\ receipt' = [receipt EXCEPT ![kind] = "pending"]
       /\ txArgs' = [txArgs EXCEPT ![kind] = args]
       /\ pc' = (IF kind = "stake_approve" THEN "stake_send" ELSE awaitPc)
       /\ err' = err
    \/ /\ Fail("SendError")
       /\ UNCHANGED txVars

\* call.send().await? : the transaction goes out, or the call fails
SendTx(kind, args, awaitPc) ==
    \/ /\ sent' = Append(sent, kind)
       /\ receipt' = [receipt EXCEPT ![kind] = "pending"]
       /\ txArgs' = [txArgs EXCEPT ![kind] = args]
       /\ pc' = awaitPc
       /\ err' = err
    \/ /\ Fail("SendError")
       /\ UNCHANGED txVars

\* tokio::time::sleep(Duration::from_secs(secs)).await, after the last
\* transaction sent
Sleep(secs) ==
    slept' = Append(slept, [secs |-> secs, after |-> sent[Len(sent)],
                            status |-> receipt[sent[Len(sent)]]])

\* pending.await? and ok_or_else: the wait ends without a receipt
NoReceipt ==
    /\ receipt[sent[Len(sent)]] = "pending"
    /\ Fail("NoReceipt")
    /\ UNCHANGED <<txVars, ledgerVars>>

\* pending.await? : the wait ends with the receipt of the mined transaction
Mined(kind, status) ==
    /\ receipt[kind] = "pending"
    /\ receipt' = [receipt EXCEPT ![kind] = status]
    /\ UNCHANGED <<sent, txArgs>>

\* lines 106, 149-151
StakingGate ==
    /\ pc = "start"
    /\ IF stakingEnabled
       THEN pc' = "read_balance" /\ UNCHANGED stakeStageOk
       ELSE pc' = "reward_approve_send" /\ stakeStageOk' = TRUE
    /\ UNCHANGED <<cfgVars, slept, err, txVars, ledgerVars, stakeBal, infoAfter,
                   stakeNeeded, stakeObserved, jobVars, est, proofVars, balVars>>

\* lines 108-115
ReadProviderBalance ==
    /\ pc = "read_balance"
    /\ \/ /\ stakeBal' = provBal
          /\ IF BalanceTooLow(provBal) THEN Fail("InsufficientBalance")
             ELSE pc' = "read_stake" /\ err' = err
       \/ Fail("RpcError") /\ UNCHANGED stakeBal
    /\ UNCHANGED <<cfgVars, slept, txVars, ledgerVars, infoAfter, stakeNeeded,
                   stakeObserved, stakeStageOk, jobVars, est, proofVars, balVars>>

\* lines 117-122, 146-148
ReadStakeRecord ==
    /\ pc = "read_stake"
    /\ \/ /\ IF NeedsStake(stakeRec)
             THEN /\ pc' = "stake_approve_send"
                  /\ stakeNeeded' = "yes"
                  /\ UNCHANGED <<stakeObserved, stakeStageOk>>
             ELSE /\ pc' = "reward_approve_send"
                  /\ stakeNeeded' = "no"
                  /\ stakeObserved' =
                        (stakeRec.exists /\ stakeRec.amount >= DesiredStake)
                  /\ stakeStageOk' = TRUE
          /\ err' = err
       \/ Fail("RpcError") /\ UNCHANGED <<stakeNeeded, stakeObserved, stakeStageOk>>
    /\ UNCHANGED <<cfgVars, slept, txVars, ledgerVars, stakeBal, infoAfter, jobVars, est,
                   proofVars, balVars>>

\* lines 126-128: gpu_credit.approve(provider_registry, amount) is sent
StakeApproveSend ==
    /\ pc = "stake_approve_send"
    /\ SendTx("stake_approve", NoArgs, "stake_approve_await")
    /\ UNCHANGED <<cfgVars, slept, ledgerVars, stakeVars, jobVars, est, proofVars, balVars>>

\* lines 128-130
StakeApproveConfirm ==
    /\ pc = "stake_approve_await"
    /\ \/ \E status \in TxStatuses :
            /\ Mined("stake_approve", status)
            /\ Goto(AfterStakeApproveReceipt(status))
            /\ UNCHANGED ledgerVars
       \/ NoReceipt
    /\ UNCHANGED <<cfgVars, slept, stakeVars, jobVars, est, proofVars, balVars>>

\* lines 132-134: provider_registry.stake(amount) is sent
StakeSend ==
    /\ pc = "stake_send"
    /\ SendTx("stake", NoArgs, "stake_await")
    /\ UNCHANGED <<cfgVars, slept, ledgerVars, stakeVars, jobVars, est, proofVars, balVars>>

\* lines 134-136
StakeConfirm ==
    /\ pc = "stake_await"
    /\ \/ /\ Mined("stake", "success")
          /\ provBal >= DesiredStake
          /\ provBal' = provBal - DesiredStake
          /\ stakeRec' \in StakeRecordOutcomes(stakeRec)
          /\ Goto(AfterStakeReceipt("success"))
          /\ UNCHANGED <<jobs, nextJobId>>
       \/ /\ Mined("stake", "failure")
          /\ Goto(AfterStakeReceipt("failure"))
          /\ UNCHANGED ledgerVars
       \/ NoReceipt
    /\ UNCHANGED <<cfgVars, slept, stakeVars, jobVars, est, proofVars, balVars>>

\* lines 138-139: sleep(15 s)
StakeSleep ==
    /\ pc = "stake_sleep"
    /\ pc' = "stake_reread"
    /\ Sleep(StakeSettleSecs)
    /\ UNCHANGED <<cfgVars, err, txVars, ledgerVars, stakeVars, jobVars, est,
                   proofVars, balVars>>

\* lines 141-145
StakeReread ==
    /\ pc = "stake_reread"
    /\ \/ /\ infoAfter' = [read |-> TRUE, exists |-> stakeRec.exists,
                            amount |-> stakeRec.amount]
          /\ IF StillInsufficient(stakeRec)
             THEN /\ Fail("StakeStillInsufficient")
                  /\ UNCHANGED <<stakeObserved, stakeStageOk>>
             ELSE /\ pc' = "reward_approve_send"
                  /\ err' = err
                  /\ stakeObserved' =
                        (stakeRec.exists /\ stakeRec.amount >= DesiredStake)
                  /\ stakeStageOk' = TRUE
       \/ Fail("RpcError") /\ UNCHANGED <<infoAfter, stakeObserved, stakeStageOk>>
    /\ UNCHANGED <<cfgVars, slept, txVars, ledgerVars, stakeBal, stakeNeeded, jobVars, est,
                   proofVars, balVars>>

\* lines 160-161: gpu_credit.approve(job_manager, job_reward) is sent
RewardApproveSend ==
    /\ pc = "reward_approve_send"
    /\ SendTx("reward_approve", NoArgs, "reward_approve_await")
    /\ UNCHANGED <<cfgVars, slept, ledgerVars, stakeVars, jobVars, est, proofVars, balVars>>

\* line 161
RewardApproveConfirm ==
    /\ pc = "reward_approve_await"
    /\ \/ \E status \in TxStatuses :
            /\ Mined("reward_approve", status)
            /\ Goto(AfterRewardApproveReceipt(status))
            /\ UNCHANGED ledgerVars
       \/ NoReceipt
    /\ UNCHANGED <<cfgVars, slept, stakeVars, jobVars, est, proofVars, balVars>>

\* lines 164-166: job_manager.create_job(...) is sent
CreateJobSend ==
    /\ pc = "create_send"
    /\ SendTx("create_job", NoArgs, "create_await")
    /\ UNCHANGED <<cfgVars, slept, ledgerVars, stakeVars, jobVars, est, proofVars, balVars>>

\* lines 166-178: the receipt, and the job id parsed from its logs
CreateJobParsed(logs) ==
    IF ParseJobId(logs) = 0
    THEN Fail("JobIdNotFound") /\ UNCHANGED job_id
    ELSE pc' = "read_job" /\ err' = err /\ job_id' = ParseJobId(logs)

CreateJobConfirm ==
    /\ pc = "create_await"
    /\ \/ /\ nextJobId \in JobIds
          /\ Mined("create_job", "success")
          /\ jobs' = [jobs EXCEPT ![nextJobId] =
                         [provider |-> Null, status |-> Created]]
          /\ nextJobId' = nextJobId + 1
          /\ \E logs \in LogLists(nextJobId) :
                /\ createLogs' = [have |-> TRUE, logs |-> logs]
                /\ CreateJobParsed(logs)
          /\ UNCHANGED <<provBal, stakeRec>>
       \/ /\ Mined("create_job", "failure")
          /\ createLogs' = [have |-> TRUE, logs |-> <<>>]
          /\ CreateJobParsed(<<>>)
          /\ UNCHANGED ledgerVars
       \/ NoReceipt /\ UNCHANGED <<createLogs, job_id>>
    /\ UNCHANGED <<cfgVars, slept, stakeVars, jobRead, raced, est, proofVars, balVars>>

\* lines 181-193: get_job(job_id) and the two checks; the logs of the
\* creation receipt are not read again
ReadJob ==
    /\ pc = "read_job"
    /\ createLogs' = NoLogs
    /\ \/ LET job == jobs[job_id] IN
            /\ jobRead' = [read |-> TRUE, provider |-> job.provider,
                           status |-> job.status]
            /\ IF JobCheck(job) = "none"
               THEN pc' = "accept_estimate" /\ err' = err
               ELSE Fail(JobCheck(job))
       \/ Fail("RpcError") /\ UNCHANGED jobRead
    /\ UNCHANGED <<cfgVars, slept, txVars, ledgerVars, stakeVars, job_id, raced, est,
                   proofVars, balVars>>

\* lines 196-200: accept_job_call.estimate_gas()
AcceptEstimate ==
    /\ pc = "accept_estimate"
    /\ \E e \in EstimateOutcomes : est' = [est EXCEPT !["accept_job"] = e]
    /\ pc' = "accept_send"
    /\ UNCHANGED <<cfgVars, slept, err, txVars, ledgerVars, stakeVars, jobVars,
                   proofVars, balVars>>

\* lines 201-202: accept_job(job_id) is sent with the gas budget
AcceptSend ==
    /\ pc = "accept_send"
    /\ SendTx("accept_job",
              [job |-> job_id,
               gas |-> GasBudget(est["accept_job"], AcceptFallbackGas),
               jhash |-> <<>>],
              "accept_await")
    /\ UNCHANGED <<cfgVars, slept, ledgerVars, stakeVars, jobVars, est, proofVars, balVars>>

\* lines 203-211
AcceptConfirm ==
    /\ pc = "accept_await"
    /\ \/ \E status \in AcceptStatuses(txArgs["accept_job"].job) :
            /\ Mined("accept_job", status)
            /\ jobs' = IF status = "success"
                       THEN [jobs EXCEPT ![txArgs["accept_job"].job] =
                                [provider |-> Provider, status |-> 1]]
                       ELSE jobs
            /\ Goto(AfterAcceptReceipt(status))
            /\ UNCHANGED <<provBal, stakeRec, nextJobId>>
       \/ NoReceipt
    /\ UNCHANGED <<cfgVars, slept, stakeVars, jobVars, est, proofVars, balVars>>

\* lines 207-208: sleep(30 s)
AcceptSleep ==
    /\ pc = "accept_sleep"
    /\ pc' = "prove"
    /\ Sleep(AcceptSettleSecs)
    /\ UNCHANGED <<cfgVars, err, txVars, ledgerVars, stakeVars, jobVars, est,
                   proofVars, balVars>>

\* lines 214-224: prove_with_opts(env, ELF, groth16)
Prove ==
    /\ pc = "prove"
    /\ \/ \E a \in Artifacts :
            /\ artifact' = a
            /\ pc' = "extract"
            /\ err' = err
       \/ Fail("ProvingFailed") /\ UNCHANGED artifact
    /\ UNCHANGED <<cfgVars, slept, txVars, ledgerVars, stakeVars, jobVars, est, sealed,
                   balVars>>

\* lines 227-237: the Groth16 seal and keccak256 of the journal bytes
ExtractSeal ==
    /\ pc = "extract"
    /\ IF IsGroth16(artifact)
       THEN /\ sealed' = [extracted |-> TRUE, jhash |-> Keccak(artifact.journal)]
            /\ pc' = "balance_before"
            /\ err' = err
       ELSE Fail("UnexpectedProofVariant") /\ UNCHANGED sealed
    /\ UNCHANGED <<cfgVars, slept, txVars, ledgerVars, stakeVars, jobVars, est, artifact,
                   balVars>>

\* lines 240-241
ReadBalanceBefore ==
    /\ pc = "balance_before"
    /\ \/ /\ balBefore' = provBal
          /\ pc' = "submit_estimate"
          /\ err' = err
       \/ Fail("RpcError") /\ UNCHANGED balBefore
    /\ UNCHANGED <<cfgVars, slept, txVars, ledgerVars, stakeVars, jobVars, est, proofVars,
                   balAfter, warned>>

\* lines 244-249: submit_proof_call.estimate_gas()
SubmitEstimate ==
    /\ pc = "submit_estimate"
    /\ \E e \in EstimateOutcomes : est' = [est EXCEPT !["submit_proof"] = e]
    /\ pc' = "submit_send"
    /\ UNCHANGED <<cfgVars, slept, err, txVars, ledgerVars, stakeVars, jobVars,
                   proofVars, balVars>>

\* lines 250-251: submit_proof_and_claim(job_id, seal, journal hash, cid) is sent
SubmitSend ==
    /\ pc = "submit_send"
    /\ SendTx("submit_proof",
              SubmitCall(job_id,
                         GasBudget(est["submit_proof"], SubmitFallbackGas),
                         sealed.jhash),
              "submit_await")
    /\ UNCHANGED <<cfgVars, slept, ledgerVars, stakeVars, jobVars, est, proofVars, balVars>>

\* lines 252-258
SubmitConfirm ==
    /\ pc = "submit_await"
    /\ \/ /\ "success" \in SubmitStatuses(txArgs["submit_proof"].job, artifact)
          /\ Mined("submit_proof", "success")
          /\ jobs' = [jobs EXCEPT ![txArgs["submit_proof"].job].status = 3]
          /\ provBal' \in SubmitBalanceOutcomes(provBal)
          /\ Goto(AfterSubmitReceipt("success"))
          /\ UNCHANGED <<stakeRec, nextJobId>>
       \/ /\ Mined("submit_proof", "failure")
          /\ Goto(AfterSubmitReceipt("failure"))
          /\ UNCHANGED ledgerVars
       \/ NoReceipt
    /\ UNCHANGED <<cfgVars, slept, stakeVars, jobVars, est, proofVars, balVars>>

\* line 261: sleep(10 s)
SubmitSleep ==
    /\ pc = "submit_sleep"
    /\ pc' = "balance_after"
    /\ Sleep(SubmitSettleSecs)
    /\ UNCHANGED <<cfgVars, err, txVars, ledgerVars, stakeVars, jobVars, est,
                   proofVars, balVars>>

\* lines 262-267: the balance is read again and compared
ReadBalanceAfter ==
    /\ pc = "balance_after"
    /\ \/ /\ balAfter' = provBal
          /\ warned' = ~RewardReceived(provBal, balBefore)
          /\ Goto(AfterReconcile(RewardReceived(provBal, balBefore)))
       \/ Fail("RpcError") /\ UNCHANGED <<balAfter, warned>>
    /\ UNCHANGED <<cfgVars, slept, txVars, ledgerVars, stakeVars, jobVars, est, proofVars,
                   balBefore>>

\* lines 270-276: the journal is decoded and main returns Ok
DecodeOutputs ==
    /\ pc = "decode"
    /\ IF JournalDecode(artifact.journal).ok
       THEN pc' = "done" /\ err' = err
       ELSE Fail("JournalDecodeFailed")
    /\ UNCHANGED <<cfgVars, slept, txVars, ledgerVars, stakeVars, jobVars, est, proofVars,
                   balVars>>

----------------------------------------------------------------------------
(* The rest of the world *)

AcceptWindow == {"accept_estimate", "accept_send", "accept_await"}

\* another provider accepts the newest job while it is open
OtherProviderClaims ==
    /\ \E j \in JobIds :
          /\ j = nextJobId - 1
          /\ jobs[j].provider = Null
          /\ jobs[j].status = Created
          /\ jobs' = [jobs EXCEPT ![j] = [provider |-> OtherProvider, status |-> 1]]
          /\ raced' = (raced \/ (j = job_id /\ pc \in AcceptWindow))
    /\ UNCHANGED <<cfgVars, slept, ctlVars, txVars, provBal, stakeRec, nextJobId,
                   stakeVars, createLogs, job_id, jobRead, est, proofVars, balVars>>

\* the newest job leaves the Created status without a provider (expiry)
JobExpires ==
    /\ \E j \in JobIds :
          /\ j = nextJobId - 1
          /\ jobs[j].provider = Null
          /\ jobs[j].status = Created
          /\ jobs' = [jobs EXCEPT ![j].status = 4]
    /\ UNCHANGED <<cfgVars, slept, ctlVars, txVars, provBal, stakeRec, nextJobId,
                   stakeVars, jobVars, est, proofVars, balVars>>

\* a sent transaction stays unmined for good: its wait never completes
TxNeverMined ==
    /\ pc \notin {"done", "failed"}
    /\ \E k \in TxKinds :
          /\ receipt[k] = "pending"
          /\ receipt' = [receipt EXCEPT ![k] = "stalled"]
    /\ UNCHANGED <<cfgVars, slept, ctlVars, sent, txArgs, ledgerVars, stakeVars, jobVars,
                   est, proofVars, balVars>>

\* the program is started again against the same ledger and configuration
NewRun ==
    /\ pc \in {"done", "failed"}
    /\ run < MaxRuns
    /\ run' = run + 1
    /\ prevStakeOk' = stakeStageOk
    /\ pc' = "start"
    /\ err' = "none"
    /\ warned' = FALSE
    /\ slept' = <<>>
    /\ sent' = <<>>
    /\ receipt' = [k \in TxKinds |-> "unsent"]
    /\ txArgs' = [k \in TxKinds |-> NoArgs]
    /\ stakeBal' = NoBal
    /\ infoAfter' = NoInfo
    /\ stakeNeeded' = "unread"
    /\ stakeObserved' = FALSE
    /\ stakeStageOk' = FALSE
    /\ createLogs' = NoLogs
    /\ job_id' = 0
    /\ jobRead' = NoJobRead
    /\ raced' = FALSE
    /\ est' = [k \in {"accept_job", "submit_proof"} |-> NoEstimate]
    /\ artifact' = NoArtifact
    /\ sealed' = NoSeal
    /\ balBefore' = NoBal
    /\ balAfter' = NoBal
    /\ UNCHANGED <<stakingEnabled, guestVars, ledgerVars>>

InitStakeRecords ==
    {[exists |-> FALSE, amount |-> 0],
     [exists |-> FALSE, amount |-> DesiredStake],
     [exists |-> TRUE, amount |-> DesiredStake - 1],
     [exists |-> TRUE, amount |-> DesiredStake]}

InitBalances == {DesiredStake - 1, 2 * DesiredStake}

HostInit ==
    /\ run = 1
    /\ stakingEnabled \in BOOLEAN
    /\ prevStakeOk = FALSE
    /\ pc = "start"
    /\ err = "none"
    /\ warned = FALSE
    /\ slept = <<>>
    /\ sent = <<>>
    /\ receipt = [k \in TxKinds |-> "unsent"]
    /\ txArgs = [k \in TxKinds |-> NoArgs]
    /\ provBal \in InitBalances
    /\ stakeRec \in InitStakeRecords
    /\ jobs = [j \in JobIds |-> [provider |-> Null, status |-> Created]]
    /\ nextJobId = 1
    /\ stakeBal = NoBal
    /\ infoAfter = NoInfo
    /\ stakeNeeded = "unread"
    /\ stakeObserved = FALSE
    /\ stakeStageOk = FALSE
    /\ createLogs = NoLogs
    /\ job_id = 0
    /\ jobRead = NoJobRead
    /\ raced = FALSE
    /\ est = [k \in {"accept_job", "submit_proof"} |-> NoEstimate]
    /\ artifact = NoArtifact
    /\ sealed = NoSeal
    /\ balBefore = NoBal
    /\ balAfter = NoBal

\* the guest is not part of a run of the host: the prover executes it
GuestIdle ==
    /\ gPc = "idle"
    /\ gInputs = HostJobInputs
    /\ gOutputs = NoOutputs
    /\ gJournal = <<>>

Init == HostInit /\ GuestIdle

\* the steps of main
HostNext ==
    \/ StakingGate
    \/ ReadProviderBalance
    \/ ReadStakeRecord
    \/ StakeApproveSend
    \/ StakeApproveConfirm
    \/ StakeSend
    \/ StakeConfirm
    \/ StakeSleep
    \/ StakeReread
    \/ RewardApproveSend
    \/ RewardApproveConfirm
    \/ CreateJobSend
    \/ CreateJobConfirm
    \/ ReadJob
    \/ AcceptEstimate
    \/ AcceptSend
    \/ AcceptConfirm
    \/ AcceptSleep
    \/ Prove
    \/ ExtractSeal
    \/ ReadBalanceBefore
    \/ SubmitEstimate
    \/ SubmitSend
    \/ SubmitConfirm
    \/ SubmitSleep
    \/ ReadBalanceAfter
    \/ DecodeOutputs

Next ==
    \/ HostNext
    \/ OtherProviderClaims
    \/ JobExpires
    \/ TxNeverMined
    \/ NewRun

Spec == Init /\ [][Next]_vars

----------------------------------------------------------------------------
(* The guest on its own, over all small inputs *)

ByteSeqs == UNION {[1..n -> 0..MaxByte] : n \in 0..MaxInputLen}

GuestInputs == [image_batch_data : ByteSeqs, model_weights_data : ByteSeqs]

hostVars == <<run, stakingEnabled, prevStakeOk, ctlVars, slept, txVars, ledgerVars,
              stakeVars, jobVars, est, proofVars, balVars>>

\* guest main.rs line 22: let inputs: JobInputs = env::read()
GuestInit ==
    /\ HostInit
    /\ ~stakingEnabled
    /\ provBal = 2 * DesiredStake
    /\ ~stakeRec.exists /\ stakeRec.amount = 0
    /\ gPc = "start"
    /\ gInputs \in GuestInputs
    /\ gOutputs = NoOutputs
    /\ gJournal = <<>>

\* guest main.rs lines 25-45: the three hashes and the outputs
GuestCompute ==
    /\ gPc = "start"
    /\ gOutputs' = GuestMain(gInputs)
    /\ gPc' = "computed"
    /\ UNCHANGED <<hostVars, gInputs, gJournal>>

\* guest main.rs line 46: env::commit(&outputs)
GuestCommit ==
    /\ gPc = "computed"
    /\ gJournal' = JournalCommit(gOutputs)
    /\ gPc' = "committed"
    /\ UNCHANGED <<hostVars, gInputs, gOutputs>>

GuestNext ==
    \/ GuestCompute
    \/ GuestCommit

SpecGuest == GuestInit /\ [][GuestNext]_vars

----------------------------------------------------------------------------
(* Properties *)

Idx(kind) == CHOOSE i \in 1..Len(TxOrder) : TxOrder[i] = kind
Count(kind) == Cardinality({i \in 1..Len(sent) : sent[i] = kind})
Sent(kind) == Count(kind) > 0
HasReceipt(kind) == receipt[kind] \in {"success", "failure"}
LastSent(kind) == Len(sent) > 0 /\ sent[Len(sent)] = kind
StakeTxCount == Count("stake_approve") + Count("stake")
StakingPcs == {"start", "read_balance", "read_stake", "stake_approve_send",
               "stake_approve_await", "stake_send", "stake_await",
               "stake_sleep", "stake_reread"}

\* C1: the transactions of a run are sent in the order stake allowance, stake,
\* reward allowance, create job, accept job, submit proof, each kind at most
\* once, and every transaction but the last one sent has its receipt.
C1_StageOrder ==
    /\ \A i, j \in 1..Len(sent) : i < j => Idx(sent[i]) < Idx(sent[j])
    /\ \A i \in 1..Len(sent) : i < Len(sent) => HasReceipt(sent[i])

C1_Witness == pc = "done" /\ sent = TxOrder

\* C2: accept-job is sent only after a read of the job, made after the
\* creation receipt, showed provider null and status Created; a read showing
\* a provider ends the run with JobAlreadyClaimed, one showing no provider
\* and another status ends it with JobNotAcceptable, without accept or submit.
C2_AcceptGatedByRead ==
    /\ Sent("accept_job") =>
          /\ jobRead.read
          /\ jobRead.provider = Null
          /\ jobRead.status = Created
    /\ jobRead.read => HasReceipt("create_job")
    /\ (jobRead.read /\ jobRead.provider # Null) =>
          /\ pc = "failed" /\ err = "JobAlreadyClaimed"
          /\ ~Sent("accept_job") /\ ~Sent("submit_proof")
    /\ (jobRead.read /\ jobRead.provider = Null /\ jobRead.status # Created) =>
          /\ pc = "failed" /\ err = "JobNotAcceptable"
          /\ ~Sent("accept_job") /\ ~Sent("submit_proof")

C2_Witness ==
    /\ jobRead.read /\ jobRead.provider = OtherProvider
    /\ pc = "failed" /\ err = "JobAlreadyClaimed"

C2_WitnessStatus ==
    /\ jobRead.read /\ jobRead.provider = Null /\ jobRead.status # Created
    /\ pc = "failed" /\ err = "JobNotAcceptable"

C2_WitnessAccept == Sent("accept_job") /\ jobRead.read

\* C3: when another provider claims the job after the pre-accept read and the
\* accept-job transaction is mined with failure, the run has failed with
\* AcceptRejected, sent accept-job once, has no proof and sent no submission.
C3_RaceIsTerminal ==
    (raced /\ receipt["accept_job"] = "failure") =>
        /\ pc = "failed" /\ err = "AcceptRejected"
        /\ Count("accept_job") = 1
        /\ artifact = NoArtifact
        /\ ~Sent("submit_proof")

C3_Witness ==
    /\ raced /\ receipt["accept_job"] = "failure"
    /\ jobs[job_id].provider = OtherProvider
    /\ pc = "failed"

\* C4: a submission is sent only for a proof that passed local verification
\* against the expected method identifier: no submission is ever sent for a
\* proof whose method identifier is another one.
C4_SubmitOnlyVerified ==
    Sent("submit_proof") => artifact.imageId = ExpectedMethodId

TransportErrors == {"SendError", "NoReceipt", "RpcError"}

\* C5 as stated: whenever the record read shows staking is needed, the stage
\* sends exactly the two staking transactions (failures of the ledger client
\* itself aside); none otherwise; none in a run that follows a run whose
\* staking stage completed.
C5_ExactlyTwoWhenNeeded ==
    /\ (stakeNeeded = "yes" /\ pc \notin StakingPcs /\ err \notin TransportErrors)
          => StakeTxCount = 2
    /\ stakeNeeded = "no" => StakeTxCount = 0
    /\ prevStakeOk => StakeTxCount = 0

\* C5 as amended: no staking transaction unless the record read showed an
\* absent or insufficient record; then the allowance grant first and the
\* stake only after the grant's success receipt, at most one of each; both
\* have been sent whenever the stage completes; and none is sent in a run
\* that follows a run whose staking stage completed.
C5_StakeCheckThenAct ==
    /\ stakeNeeded # "yes" => StakeTxCount = 0
    /\ Count("stake_approve") <= 1 /\ Count("stake") <= 1
    /\ Sent("stake_approve") => sent[1] = "stake_approve"
    /\ Sent("stake") =>
          /\ receipt["stake_approve"] = "success"
          /\ Len(sent) >= 2 /\ sent[2] = "stake"
    /\ (stakeNeeded = "yes" /\ stakeStageOk) =>
          /\ StakeTxCount = 2
          /\ receipt["stake"] = "success"
    /\ prevStakeOk => StakeTxCount = 0

C5_Witness ==
    /\ run = 2 /\ prevStakeOk /\ stakingEnabled
    /\ stakeNeeded = "no" /\ pc = "reward_approve_send"
    /\ stakeRec.amount > DesiredStake

C5_WitnessStaked == stakeNeeded = "yes" /\ stakeStageOk /\ StakeTxCount = 2

\* C6 as stated: accept-job is sent only in a run that observed a stake
\* record with exists and stakedAmount >= the required stake.
C6_AcceptNeedsObservedStake == Sent("accept_job") => stakeObserved

\* C6 as amended: with staking enabled (a non-zero registry address),
\* accept-job is sent only in a run that observed a stake record with exists
\* and stakedAmount >= the required stake.
C6_AcceptNeedsStakeWhenEnabled ==
    (stakingEnabled /\ Sent("accept_job")) => stakeObserved

C6_Witness ==
    /\ stakingEnabled /\ Sent("accept_job") /\ Sent("stake")
    /\ stakeObserved

\* C7: a receipt with failure status ends the run at that transaction, and
\* create-job is sent only after a success receipt of the reward allowance.
C7_FailureIsFatal ==
    /\ \A k \in TxKinds : receipt[k] = "failure" => (pc = "failed" /\ LastSent(k))
    /\ Sent("create_job") => receipt["reward_approve"] = "success"

\* C8: accept-job and submit-proof-and-claim carry 800000 resp. 3000000 gas
\* when the estimate failed, and floor(12 g / 10) >= g when it gave g; a
\* failed estimate does not end the run.
C8_GasBudget ==
    /\ \A k \in {"accept_job", "submit_proof"} :
          LET e == est[k]
              gas == txArgs[k].gas
              fallback == IF k = "accept_job" THEN 800000 ELSE 3000000
          IN /\ Sent(k) =>
                   /\ e.made
                   /\ ~e.ok => (gas = fallback /\ gas > 0)
                   /\ e.ok => /\ gas >= e.gas
                              /\ 10 * gas <= 12 * e.gas
                              /\ 12 * e.gas < 10 * gas + 10
             /\ (e.made /\ ~Sent(k)) =>
                   \/ pc = (IF k = "accept_job" THEN "accept_send" ELSE "submit_send")
                   \/ pc = "failed" /\ err = "SendError"
    /\ SubmitFallbackGas > AcceptFallbackGas

C8_Witness ==
    /\ Sent("submit_proof")
    /\ ~est["accept_job"].ok /\ txArgs["accept_job"].gas = 800000
    /\ est["submit_proof"].ok /\ est["submit_proof"].gas = TypicalGas
    /\ txArgs["submit_proof"].gas > est["submit_proof"].gas

C8_WitnessSubmitFallback ==
    Sent("submit_proof") /\ ~est["submit_proof"].ok /\ receipt["submit_proof"] = "success"

\* C9: after a success receipt of the submission, a re-read balance not above
\* the baseline gives the warning only: no error, no further transaction,
\* and the run ends in success (the one step left, the decode, succeeds).
C9_RewardNotReceivedIsWarning ==
    (receipt["submit_proof"] = "success" /\ balAfter # NoBal /\ balAfter <= balBefore) =>
        /\ warned
        /\ err = "none"
        /\ pc \in {"decode", "done"}
        /\ JournalDecode(artifact.journal).ok
        /\ LastSent("submit_proof") /\ Count("submit_proof") = 1

C9_Witness ==
    /\ receipt["submit_proof"] = "success"
    /\ balAfter # NoBal /\ balAfter < balBefore
    /\ warned /\ pc = "done"

C9_WitnessUnchanged ==
    /\ receipt["submit_proof"] = "success"
    /\ balAfter # NoBal /\ balAfter = balBefore
    /\ warned /\ pc = "done"

\* C10: a failure receipt of the submission ends the run with
\* SettlementReverted: one submission sent, no balance re-read, no success.
C10_SettlementReverted ==
    receipt["submit_proof"] = "failure" =>
        /\ pc = "failed" /\ err = "SettlementReverted"
        /\ Count("submit_proof") = 1 /\ LastSent("submit_proof")
        /\ balAfter = NoBal
        /\ ~warned

C10_Witness ==
    /\ receipt["submit_proof"] = "failure" /\ pc = "failed"
    /\ balBefore # NoBal

\* C11: when the proof the prover returned is not the wrapped (Groth16)
\* variant, the run fails with UnexpectedProofVariant at the extraction, no
\* seal is formed and no submission is ever sent in that run.
C11_UnwrappedNeverSubmitted ==
    artifact.variant \notin {"none", "Groth16"} =>
        /\ pc = "extract" \/ (pc = "failed" /\ err = "UnexpectedProofVariant")
        /\ sealed = NoSeal
        /\ ~Sent("submit_proof")
        /\ LastSent("accept_job")

C11_Witness ==
    /\ artifact.variant = "Composite"
    /\ pc = "failed" /\ err = "UnexpectedProofVariant"
    /\ receipt["accept_job"] = "success"

\* the relation between the public outputs: the computation hash is the
\* hash of the image digest followed by the weights digest
OutputsRelated(o) ==
    /\ o.ok
    /\ o.computation_output_hash = Hash(o.image_batch_hash \o o.model_weights_hash)

\* C12: the relation ComputationOutputHash = Hash(ImageBatchHash ||
\* ModelWeightsHash) over the decoded public outputs is checked before the
\* submission: a submission is sent only for a proof whose outputs satisfy it.
C12_RelationCheckedBeforeSubmit ==
    Sent("submit_proof") => OutputsRelated(JournalDecode(artifact.journal))

\* C13: with staking enabled, a provider balance below the required stake
\* ends the run with InsufficientBalance before any transaction is sent and
\* before the stake record is read, whatever that record holds.
C13_LowBalanceStopsFirst ==
    (stakingEnabled /\ stakeBal # NoBal /\ stakeBal < DesiredStake) =>
        /\ pc = "failed" /\ err = "InsufficientBalance"
        /\ sent = <<>>
        /\ stakeNeeded = "unread"
        /\ provBal = stakeBal

\* the balance is too low although the record already holds the full stake
C13_Witness ==
    /\ stakingEnabled /\ stakeBal # NoBal /\ stakeBal < DesiredStake
    /\ stakeRec.exists /\ stakeRec.amount >= DesiredStake
    /\ pc = "failed" /\ err = "InsufficientBalance"

C13_WitnessNoRecord ==
    /\ stakingEnabled /\ stakeBal # NoBal /\ stakeBal < DesiredStake
    /\ ~stakeRec.exists
    /\ pc = "failed" /\ err = "InsufficientBalance"

\* C14: every run terminates: a run that has not ended can always take a
\* further step of main, so a wait that does not complete is ended (by a
\* timeout that aborts the run) and never holds the run for good.
C14_NoWaitHoldsTheRun ==
    pc \in {"done", "failed"} \/ ENABLED HostNext

\* failures the end-to-end scenario leaves out: of the ledger client, of the
\* prover, a creation receipt without the event, a job taken or expired
C15_OutsideErrors ==
    TransportErrors \cup {"ProvingFailed", "JobIdNotFound", "JobAlreadyClaimed",
                          "JobNotAcceptable"}

\* the scenario so far: stake read as sufficient, every sent transaction
\* mined with success (or still awaited), a valid proof, the reward paid
\* with the submission
C15_Scenario ==
    /\ stakingEnabled /\ stakeNeeded = "no"
    /\ \A k \in TxKinds : receipt[k] \in {"unsent", "pending", "success"}
    /\ \/ artifact = NoArtifact
       \/ artifact.variant = "Groth16" /\ artifact.imageId = ExpectedMethodId
    /\ receipt["submit_proof"] = "success" => provBal = balBefore + JobReward
    /\ err \notin C15_OutsideErrors

\* C15: end to end, in a run where the provider already holds sufficient
\* stake, every transaction is mined with success, the proof is valid and
\* the ledger pays with the submission, the run does not fail, can always
\* go on until it has ended, and ends in success with the job Paid and the
\* provider balance at its initial value plus the job reward.
C15_EndToEnd ==
    C15_Scenario =>
        /\ pc # "failed" /\ err = "none"
        /\ pc # "done" => ENABLED HostNext
        /\ pc = "done" =>
              /\ sent = <<"reward_approve", "create_job", "accept_job",
                          "submit_proof">>
              /\ txArgs["submit_proof"].job = job_id
              /\ jobs[job_id].provider = Provider /\ jobs[job_id].status = 3
              /\ provBal = stakeBal + JobReward
              /\ balAfter = stakeBal + JobReward
              /\ ~warned

C15_Witness ==
    /\ C15_Scenario /\ pc = "done"
    /\ stakeBal = 2 * DesiredStake /\ provBal = 2 * DesiredStake + 10
    /\ jobs[job_id].status = 3

\* C16: for every input pair the guest commits the hash of the image, the
\* hash of the weights and the hash of the image digest followed by the
\* weights digest, in this order; the journal is fixed by the inputs alone.
C16_GuestCommitsChainedHash ==
    gPc = "committed" =>
        LET image_digest == Hash(gInputs.image_batch_data)
            weights_digest == Hash(gInputs.model_weights_data)
            o == JournalDecode(gJournal)
        IN /\ o.ok
           /\ o.image_batch_hash = image_digest
           /\ o.model_weights_hash = weights_digest
           /\ o.computation_output_hash = Hash(image_digest \o weights_digest)
           /\ gJournal = image_digest \o weights_digest
                              \o Hash(image_digest \o weights_digest)

\* inputs for which the order of the concatenation shows in the result
C16_Witness ==
    /\ gPc = "committed"
    /\ Len(gInputs.image_batch_data) > 0
    /\ Len(gInputs.model_weights_data) > 0
    /\ LET image_digest == Hash(gInputs.image_batch_data)
           weights_digest == Hash(gInputs.model_weights_data)
       IN /\ Hash(image_digest \o weights_digest)
                # Hash(weights_digest \o image_digest)
          /\ JournalDecode(gJournal).computation_output_hash
                = Hash(image_digest \o weights_digest)

NoJobTransactions ==
    ~Sent("reward_approve") /\ ~Sent("create_job") /\ ~Sent("accept_job")

\* C17: in the staking stage, after a failure receipt of the allowance grant
\* the stake is not sent; a failure receipt of either transaction ends the
\* run with StakeTransactionReverted, a re-read record that is absent or
\* below the required stake ends it with StakeStillInsufficient, and in
\* each case no reward allowance, create-job or accept-job is sent.
C17_StakingFailureAborts ==
    /\ receipt["stake_approve"] = "failure" => ~Sent("stake")
    /\ (receipt["stake_approve"] = "failure" \/ receipt["stake"] = "failure") =>
          /\ pc = "failed" /\ err = "StakeTransactionReverted"
          /\ NoJobTransactions
          /\ ~infoAfter.read
    /\ (infoAfter.read /\ (~infoAfter.exists \/ infoAfter.amount < DesiredStake)) =>
          /\ pc = "failed" /\ err = "StakeStillInsufficient"
          /\ receipt["stake"] = "success"
          /\ NoJobTransactions

C17_Witness ==
    /\ infoAfter.read /\ infoAfter.exists /\ infoAfter.amount < DesiredStake
    /\ receipt["stake"] = "success"
    /\ pc = "failed" /\ err = "StakeStillInsufficient"

C17_WitnessApprove ==
    receipt["stake_approve"] = "failure" /\ pc = "failed" /\ sent = <<"stake_approve">>

C17_WitnessStake ==
    receipt["stake"] = "failure" /\ pc = "failed" /\ LastSent("stake")

C17_WitnessAbsent ==
    infoAfter.read /\ ~infoAfter.exists /\ pc = "failed"

\* a log of the job registry with the creation signature and a second topic
MatchesJobCreated(l) ==
    /\ l.address = JobManagerAddr
    /\ Len(l.topics) >= 2
    /\ l.topics[1] = JobCreatedSig

\* C18: the job id of the run is the second topic of the first log of the
\* creation receipt that the job registry emitted with the creation
\* signature and at least two topics (a matching log with one topic is
\* passed over); without such a log the run fails with JobIdNotFound and
\* sends no accept-job; accept-job carries the id so found.
C18_JobIdFromFirstMatchingLog ==
    /\ createLogs.have =>
          LET logs == createLogs.logs
              matching == {i \in 1..Len(logs) : MatchesJobCreated(logs[i])}
          IN IF matching = {}
             THEN job_id = 0 /\ pc = "failed" /\ err = "JobIdNotFound"
             ELSE LET first == CHOOSE i \in matching : \A j \in matching : i <= j
                  IN /\ job_id = logs[first].topics[2]
                     /\ pc = "read_job" /\ err = "none"
    /\ (HasReceipt("create_job") /\ job_id = 0) =>
          /\ pc = "failed" /\ err = "JobIdNotFound"
          /\ ~Sent("accept_job")
    /\ Sent("accept_job") =>
          /\ job_id # 0
          /\ txArgs["accept_job"].job = job_id

\* a matching log with one topic comes first and is passed over
C18_Witness ==
    /\ createLogs.have
    /\ createLogs.logs =
          <<[address |-> JobManagerAddr, topics |-> <<JobCreatedSig>>],
            [address |-> JobManagerAddr, topics |-> <<JobCreatedSig, 2>>]>>
    /\ job_id = 2 /\ pc = "read_job"

C18_WitnessNotFound ==
    /\ createLogs.have
    /\ createLogs.logs =
          <<[address |-> GpuCreditAddr, topics |-> <<JobCreatedSig, 1>>],
            [address |-> JobManagerAddr, topics |-> <<JobCreatedSig>>]>>
    /\ job_id = 0 /\ pc = "failed" /\ err = "JobIdNotFound"

\* C19: the submission carries the job id that was parsed from the creation
\* receipt of this run and that the accept-job of this run carried and got
\* a success receipt for; the job it names is the one this run created (the
\* newest of the ledger) and is held by this provider.
C19_SubmitsOwnAcceptedJob ==
    Sent("submit_proof") =>
        /\ job_id # 0
        /\ txArgs["submit_proof"].job = job_id
        /\ txArgs["accept_job"].job = job_id
        /\ receipt["create_job"] = "success"
        /\ job_id = nextJobId - 1
        /\ receipt["accept_job"] = "success"
        /\ Count("create_job") = 1 /\ Count("accept_job") = 1
        /\ jobs[txArgs["submit_proof"].job].provider = Provider

\* the second run submits for the job its own creation receipt named
C19_Witness ==
    /\ run = 2 /\ Sent("submit_proof") /\ receipt["submit_proof"] = "success"
    /\ job_id = 2 /\ txArgs["submit_proof"].job = 2

SleptAfter(kind, secs) ==
    \E i \in 1..Len(slept) :
        slept[i] = [secs |-> secs, after |-> kind, status |-> "success"]

\* C20: each settle delay stands between a confirmed write and the step that
\* relies on it: proving starts only after the 30 s sleep that follows the
\* success receipt of accept-job, the stake record is re-read only after the
\* 15 s sleep that follows the success receipt of the stake, and the
\* provider balance is re-read only after the 10 s sleep that follows the
\* success receipt of the submission.
C20_SettleDelays ==
    /\ (pc = "prove" \/ artifact # NoArtifact \/ err = "ProvingFailed") =>
          /\ receipt["accept_job"] = "success"
          /\ SleptAfter("accept_job", AcceptSettleSecs)
    /\ (pc = "stake_reread" \/ infoAfter.read) =>
          /\ receipt["stake"] = "success"
          /\ SleptAfter("stake", StakeSettleSecs)
    /\ (pc = "balance_after" \/ balAfter # NoBal) =>
          /\ receipt["submit_proof"] = "success"
          /\ SleptAfter("submit_proof", SubmitSettleSecs)
    /\ \A i, j \in 1..Len(slept) : slept[i].after = slept[j].after => i = j

C20_Witness ==
    /\ pc = "done"
    /\ slept = <<[secs |-> 15, after |-> "stake", status |-> "success"],
                 [secs |-> 30, after |-> "accept_job", status |-> "success"],
                 [secs |-> 10, after |-> "submit_proof", status |-> "success"]>>
    /\ infoAfter.read /\ artifact # NoArtifact /\ balAfter # NoBal

====
